---- MODULE Spec2Model ----
(***************************************************************************)
(* Model of the analyze endpoint (src/app/api/analyze/route.ts): the page  *)
(* segmenter parsePDFText, the keyword classifier searchRaviInText, the    *)
(* optional refinement analyzeWithAI and the POST handler.                 *)
(*                                                                         *)
(* A text is a sequence of UTF-16 code units.  A code unit is written as a *)
(* one-character string; the Arabic letters of the term lists are written  *)
(* by their code point ("U0636" is one code unit).  Offsets are 0-based as *)
(* in the source; At(t, k) is the code unit at offset k.                   *)
(***************************************************************************)
EXTENDS Integers, Sequences, FiniteSets, TLC

\* ------------------------------------------------------------------ text

Chars(str) == [i \in 1..Len(str) |-> SubSeq(str, i, i)]

Pad(c, n) == [i \in 1..n |-> c]

Min(S) == CHOOSE x \in S : \A y \in S : x <= y

Max(S) == CHOOSE x \in S : \A y \in S : x >= y

At(t, k) == t[k + 1]

UpperLetters == Chars("ABCDEFGHIJKLMNOPQRSTUVWXYZ")

LowerLetters == Chars("abcdefghijklmnopqrstuvwxyz")

LowerOf == [c \in {UpperLetters[i] : i \in 1..26} |->
              LowerLetters[CHOOSE i \in 1..26 : UpperLetters[i] = c]]

\* String.prototype.toLowerCase, one code unit
LowerChar(c) == IF c \in DOMAIN LowerOf THEN LowerOf[c] ELSE c

toLowerCase(t) == [i \in 1..Len(t) |-> LowerChar(t[i])]

\* String.prototype.includes
includes(t, term) ==
    \/ term = <<>>
    \/ \E k \in 0..(Len(t) - Len(term)) :
          At(t, k) = term[1] /\ SubSeq(t, k + 1, k + Len(term)) = term

\* String.prototype.substring: both offsets clamped to [0, length], swapped
\* when start > end
substring(t, start, end) ==
    LET clamp(x) == IF x < 0 THEN 0 ELSE IF x > Len(t) THEN Len(t) ELSE x
        a == clamp(start)
        b == clamp(end)
    IN  IF a <= b THEN SubSeq(t, a + 1, b) ELSE SubSeq(t, b + 1, a)

LineTerminators == {"\n", "\r", "U2028", "U2029"}

WhiteSpace == {" ", "\t", "\f", "U00A0", "UFEFF"} \cup LineTerminators

\* String.prototype.trim strips white space and line terminators (those of the
\* texts modelled here)
trim(t) ==
    LET keep == {i \in 1..Len(t) : t[i] \notin WhiteSpace}
    IN  IF keep = {} THEN <<>> ELSE SubSeq(t, Min(keep), Max(keep))

\* ------------------------------------------------------------ the regexes

\* /ravi/i matched at offset k (ignoreCase compares canonicalised code units;
\* only the ASCII letters of either case canonicalise to R, A, V, I)
RaviAt(t, k) ==
    /\ k >= 0
    /\ k + 4 <= Len(t)
    /\ LowerChar(At(t, k)) = "r"
    /\ LowerChar(At(t, k + 1)) = "a"
    /\ LowerChar(At(t, k + 2)) = "v"
    /\ LowerChar(At(t, k + 3)) = "i"

ContainsRavi(t) == \E k \in 0..(Len(t) - 4) : RaviAt(t, k)

\* RegExp.prototype.test on the global-flag /ravi/gi: the search starts at the
\* object's lastIndex; a match leaves lastIndex after the match, a failure
\* resets it to 0.
RegexTestCaseSensitive(t, lastIndex) ==
    LET hits == {k \in lastIndex..(Len(t) - 4) : SubSeq(t, k + 1, k + 4) = Chars("ravi")}
    IN  IF lastIndex > Len(t) \/ hits = {}
        THEN [ok |-> FALSE, lastIndex |-> 0]
        ELSE [ok |-> TRUE, lastIndex |-> Min(hits) + 4]

RegexTest(t, lastIndex) ==
    LET hits == {k \in lastIndex..(Len(t) - 4) : RaviAt(t, k)}
    IN  IF lastIndex > Len(t) \/ hits = {}
        THEN [ok |-> FALSE, lastIndex |-> 0]
        ELSE [ok |-> TRUE, lastIndex |-> Min(hits) + 4]

WindowSide == 100

ContextLimit == 200

Ellipsis == Chars("...")

\* the greedy .{0,max} at offset k: how many code units up to max are not
\* line terminators
DotStops(t, k, max, j) ==
    j = max \/ k + j >= Len(t) \/ At(t, k + j) \in LineTerminators

DotRun(t, k, max) ==
    CHOOSE j \in 0..max :
        DotStops(t, k, max, j) /\ \A i \in 0..(j - 1) : ~DotStops(t, k, max, i)

\* /(.{0,100}ravi.{0,100})/gi tried at start offset s: the first quantifier is
\* greedy and backtracks to the last offset where "ravi" follows; the end
\* offset of the match, or -1
MatchEnd(t, s, cands) ==
    IF cands = {} THEN -1
    ELSE s + Max(cands) + 4 + DotRun(t, s + Max(cands) + 4, WindowSide)

MatchAt(t, s) ==
    MatchEnd(t, s, {a \in 0..DotRun(t, s, WindowSide) : RaviAt(t, s + a)})

\* String.prototype.matchAll: successive exec calls; each takes the leftmost
\* start offset at or after the end of the previous match where the pattern
\* matches
RECURSIVE MatchAllFrom(_, _)
MatchesFrom(t, s, e) == <<substring(t, s, e)>> \o MatchAllFrom(t, e)

MatchAllFrom(t, pos) ==
    IF \A s \in pos..(Len(t) - 4) : MatchAt(t, s) = -1 THEN <<>>
    ELSE LET s == CHOOSE s \in pos..(Len(t) - 4) :
                      /\ MatchAt(t, s) # -1
                      /\ \A u \in pos..(s - 1) : MatchAt(t, u) = -1
         IN  MatchesFrom(t, s, MatchAt(t, s))

matchAll(t) == MatchAllFrom(t, 0)

\* ---------------------------------------------------------- the term lists

thiqahTerms ==
    << Chars("thiqah"), Chars("thiqa"), Chars("trustworthy"), Chars("reliable"),
       Chars("authentic"),
       <<"U0635", "U062F", "U0648", "U0642">>,
       <<"U062B", "U0642", "U0629">>,
       <<"U0645", "U0648", "U062B", "U0648", "U0642">>,
       Chars("acceptable"), Chars("sound"), Chars("strong") >>

zaeefTerms ==
    << Chars("zaeef"), Chars("daeef"), Chars("weak"), Chars("unreliable"),
       Chars("doubtful"),
       <<"U0636", "U0639", "U064A", "U0641">>,
       <<"U0645", "U062A", "U0631", "U0648", "U0643">>,
       Chars("rejected"), Chars("fabricated"), Chars("poor") >>

SomeTerm(terms, lowerContext) ==
    \E i \in 1..Len(terms) : includes(lowerContext, toLowerCase(terms[i]))

\* the status of one window
StatusOfWeakFirst(context) ==
    LET lowerContext == toLowerCase(context)
    IN  IF SomeTerm(zaeefTerms, lowerContext) THEN "Zaeef"
        ELSE IF SomeTerm(thiqahTerms, lowerContext) THEN "Thiqah"
        ELSE "Unknown"

StatusOf(context) ==
    LET lowerContext == toLowerCase(context)
    IN  IF SomeTerm(thiqahTerms, lowerContext) THEN "Thiqah"
        ELSE IF SomeTerm(zaeefTerms, lowerContext) THEN "Zaeef"
        ELSE "Unknown"

\* the context field of a result
TruncateNoCut(context) == context

TruncateShort(context) ==
    IF Len(context) > ContextLimit
    THEN substring(context, 0, WindowSide) \o Ellipsis
    ELSE context

Truncate(context) ==
    IF Len(context) > ContextLimit
    THEN substring(context, 0, ContextLimit) \o Ellipsis
    ELSE context

\* the trimmed context of every match of a page
PageWindows(pageText) ==
    LET matches == matchAll(pageText)
    IN  [j \in 1..Len(matches) |-> trim(matches[j])]

\* the results one page adds once the page test has passed
PageResults(pageText, pageIndex, bookName) ==
    LET windows == PageWindows(pageText)
    IN  [j \in 1..Len(windows) |->
            [bookName |-> bookName,
             status   |-> StatusOf(windows[j]),
             page     |-> pageIndex + 1,
             context  |-> Truncate(windows[j])]]

\* one call of the forEach callback: st is [lastIndex, results]
ScanPage(st, pageText, pageIndex, bookName) ==
    LET r == RegexTest(pageText, st.lastIndex)
    IN  [lastIndex |-> r.lastIndex,
         results   |-> IF r.ok
                       THEN st.results \o PageResults(pageText, pageIndex, bookName)
                       ELSE st.results]

RECURSIVE ScanFrom(_, _, _, _)
ScanFrom(st, pages, pageIndex, bookName) ==
    IF pageIndex >= Len(pages) THEN st
    ELSE ScanFrom(ScanPage(st, At(pages, pageIndex), pageIndex, bookName),
                  pages, pageIndex + 1, bookName)

searchRaviInText(pages, bookName) ==
    ScanFrom([lastIndex |-> 0, results |-> <<>>], pages, 0, bookName).results

\* ------------------------------------------------- IEEE 754 double arithmetic
\* The segmenter's offsets are computed in JavaScript numbers.  A double is
\* modelled exactly as [m, e], value m * 2^e, m a natural number of at most
\* Precision bits held as little-endian limbs of LimbBits bits.  The operands
\* met here (lengths and page counts below 2^20) stay far from the subnormal
\* and overflow ranges.

Precision == 53

LimbBase == 2 ^ 10

LimbBits == CHOOSE b \in 1..30 : 2 ^ b = LimbBase

\* limbs of quotient computed before rounding: more than Precision bits
QuotientLimbs == Precision \div LimbBits + 2

RECURSIVE NatLimbs(_)
NatLimbs(x) == IF x = 0 THEN <<>> ELSE <<x % LimbBase>> \o NatLimbs(x \div LimbBase)

RECURSIVE LimbsNat(_)
LimbsNat(ls) == IF ls = <<>> THEN 0 ELSE Head(ls) + LimbBase * LimbsNat(Tail(ls))

Strip(ls) ==
    LET nz == {k \in 1..Len(ls) : ls[k] # 0}
    IN  IF nz = {} THEN <<>> ELSE SubSeq(ls, 1, Max(nz))

BitLen(ls) ==
    IF ls = <<>> THEN 0
    ELSE LimbBits * (Len(ls) - 1) + Min({b \in 0..LimbBits : ls[Len(ls)] < 2 ^ b})

BitAt(ls, pos) ==
    IF pos \div LimbBits + 1 > Len(ls) THEN 0
    ELSE (ls[pos \div LimbBits + 1] \div (2 ^ (pos % LimbBits))) % 2

\* no bit below position pos is set
LowZero(ls, pos) ==
    /\ \A k \in 1..Len(ls) : k <= pos \div LimbBits => ls[k] = 0
    /\ \/ pos \div LimbBits + 1 > Len(ls)
       \/ ls[pos \div LimbBits + 1] % (2 ^ (pos % LimbBits)) = 0

ShiftRight(ls, sh) ==
    LET a == sh \div LimbBits
        b == sh % LimbBits
        limb(k) == IF k > Len(ls) THEN 0 ELSE ls[k]
    IN  Strip([k \in 1..(IF Len(ls) > a THEN Len(ls) - a ELSE 0) |->
                 (limb(k + a) \div (2 ^ b))
                   + (limb(k + a + 1) % (2 ^ b)) * (2 ^ (LimbBits - b))])

Incr(ls) ==
    LET open == {k \in 1..Len(ls) : ls[k] # LimbBase - 1}
    IN  IF open = {} THEN Pad(0, Len(ls)) \o <<1>>
        ELSE [k \in 1..Len(ls) |->
                 IF k < Min(open) THEN 0
                 ELSE IF k = Min(open) THEN ls[k] + 1 ELSE ls[k]]

\* quotient and remainder of a limb number by a small divisor
RECURSIVE DivLimbs(_, _)
DivLimbs(ls, n) ==
    IF ls = <<>> THEN [q |-> <<>>, r |-> 0]
    ELSE LET hi  == DivLimbs(Tail(ls), n)
             cur == hi.r * LimbBase + Head(ls)
         IN  [q |-> <<cur \div n>> \o hi.q, r |-> cur % n]

RECURSIVE MulLimbs(_, _, _)
MulLimbs(ls, i, carry) ==
    IF ls = <<>> THEN NatLimbs(carry)
    ELSE LET v == Head(ls) * i + carry
         IN  <<v % LimbBase>> \o MulLimbs(Tail(ls), i, v \div LimbBase)

\* round the natural number N (plus a nonzero fraction when sticky) to
\* Precision significant bits, ties to even: N ~ m * 2^sh
RoundToDouble(N, sticky) ==
    IF BitLen(N) <= Precision THEN [m |-> N, sh |-> 0]
    ELSE LET sh == BitLen(N) - Precision
             m0 == ShiftRight(N, sh)
             up == /\ BitAt(N, sh - 1) = 1
                   /\ \/ sticky
                      \/ ~LowZero(N, sh - 1)
                      \/ BitAt(m0, 0) = 1
         IN  [m |-> IF up THEN Incr(m0) ELSE m0, sh |-> sh]

DoubleZero == [m |-> <<>>, e |-> 0]

\* the double nearest to len / n, for naturals len and n > 0
DoubleDiv(len, n) ==
    IF len = 0 THEN DoubleZero
    ELSE LET d == DivLimbs(Pad(0, QuotientLimbs) \o NatLimbs(len), n)
             r == RoundToDouble(Strip(d.q), d.r # 0)
         IN  [m |-> r.m, e |-> r.sh - QuotientLimbs * LimbBits]

\* the double nearest to i * f, for a natural i
DoubleMul(i, f) ==
    IF i = 0 \/ f.m = <<>> THEN DoubleZero
    ELSE LET r == RoundToDouble(Strip(MulLimbs(f.m, i, 0)), FALSE)
         IN  [m |-> r.m, e |-> f.e + r.sh]

\* Math.floor
MathFloor(f) ==
    IF f.m = <<>> THEN 0
    ELSE IF f.e >= 0 THEN LimbsNat(f.m) * (2 ^ f.e)
    ELSE LimbsNat(ShiftRight(f.m, 0 - f.e))

\* -------------------------------------------------------- the page segmenter

\* the offset Math.floor(i * avgCharsPerPage), avgCharsPerPage the double
\* fullText.length / numPages
PageOffsetRounded(len, numPages, i) == (2 * i * len + numPages) \div (2 * numPages)

PageOffset(len, numPages, i) == MathFloor(DoubleMul(i, DoubleDiv(len, numPages)))

\* the pages of parsePDFText, given the decoder's text and page count; with
\* no page the loop body never runs
parsePDFText(fullText, numPages) ==
    [i \in 1..numPages |->
        substring(fullText, PageOffset(Len(fullText), numPages, i - 1),
                            PageOffset(Len(fullText), numPages, i))]

\* ------------------------------------------------------------ the refinement

AIPageLimit == 10

\* What the external service can answer for one page: create() rejects, the
\* completion carries no content, the content is not JSON, the JSON is not an
\* object (null), or it is a judgment {found, status, context}.  A missing
\* field is written "undefined" (status) or <<>> (context).
NoJudgment(kind) ==
    [kind |-> kind, found |-> FALSE, status |-> "undefined", context |-> <<>>]

Judgment(found, status, context) ==
    [kind |-> "json", found |-> found, status |-> status, context |-> context]

Replies ==
    { NoJudgment("reject"), NoJudgment("noContent"), NoJudgment("notJson"),
      NoJudgment("notObject"),
      Judgment(FALSE, "Thiqah", Chars("Ravi is sound")),
      Judgment(TRUE, "Thiqah", Chars("Ravi is sound")),
      Judgment(TRUE, "undefined", <<>>),
      Judgment(TRUE, "Weak", Chars("the ravi is weak")) }

\* the 1-based numbers of the pages that contain "ravi", in page order (every
\* page is tested with a regex object of its own)
RaviPageNums(pages) ==
    LET nums == {i \in 1..Len(pages) : ContainsRavi(pages[i])}
    IN  [k \in 1..Cardinality(nums) |->
            CHOOSE x \in nums : Cardinality({y \in nums : y < x}) = k - 1]

\* what one reply adds to the results
ReplyResults(reply, bookName, pageNum) ==
    IF reply.kind = "json" /\ reply.found
    THEN << [bookName |-> bookName,
             status   |-> reply.status,
             page     |-> pageNum,
             context  |-> IF reply.context = <<>> THEN Chars("Reference found")
                          ELSE reply.context] >>
    ELSE <<>>

\* the pages analyzeWithAI sends to the service: raviPages.slice(0, 10)
PagesToAsk(pages) ==
    LET raviPages == RaviPageNums(pages)
    IN  SubSeq(raviPages, 1, IF Len(raviPages) < AIPageLimit
                             THEN Len(raviPages) ELSE AIPageLimit)

\* ------------------------------------------------------------------- inputs

MaxLen == 16

MaxSegPages == 13

Slack == 1

MaxKwPages == 3

MaxFiles == 2

\* a text of the given length whose code units tell their offsets apart
MarkText(len) == [k \in 1..len |-> LowerLetters[((k - 1) % 26) + 1]]

SegLens == (0..MaxLen) \cup {1000}

PadLens == (0..Slack) \cup ((WindowSide - Slack)..(WindowSide + Slack))

\* pages that place one "ravi" at the window's edges
LayoutPages ==
    { lead \o Pad(c, pre) \o name \o Pad(d, post) :
        lead \in {<<>>, <<" ">>}, c \in {"x", " ", "\n"}, pre \in PadLens,
        name \in {Chars("Ravi"), Chars("rAVI")}, d \in {"y", " "}, post \in PadLens }

WeakOnlyPage(i) == Chars("Ravi is ") \o zaeefTerms[i]

TermPages ==
    { WeakOnlyPage(i) : i \in 1..Len(zaeefTerms) }
      \cup { Chars("Ravi is ") \o thiqahTerms[i] : i \in 1..Len(thiqahTerms) }
      \cup { Chars("ravi ") \o thiqahTerms[i] \o Chars(" or ") \o zaeefTerms[j] :
               i \in 1..Len(thiqahTerms), j \in 1..Len(zaeefTerms) }
      \cup { zaeefTerms[j] \o Chars(" but ") \o thiqahTerms[i] \o Chars(" ravi") :
               i \in 1..Len(thiqahTerms), j \in 1..Len(zaeefTerms) }
      \cup { Chars("RAVI IS WEAK"), Chars("The Ravi Is Poor Yet Sound"),
             Chars("sound") \o Pad("x", WindowSide + 1) \o Chars("ravi weak"),
             Chars("weak ravi") \o Pad("x", WindowSide) \o Chars("strong"),
             Chars("a ravi, a rawi") }

ShortPages ==
    { <<>>, Chars("ravi"), Chars("xxxxravi"), Chars("none"),
      Chars("Ravi weak RAVI"), Chars("ra\nvi ravi") }

RECURSIVE SeqsUpTo(_, _)
SeqsUpTo(S, n) ==
    IF n = 0 THEN {<<>>}
    ELSE LET shorter == SeqsUpTo(S, n - 1)
         IN  shorter \cup {Append(q, x) : q \in shorter, x \in S}

KwInputs ==
    {<<p>> : p \in LayoutPages \cup TermPages} \cup SeqsUpTo(ShortPages, MaxKwPages)

KwBook == "book.pdf"

\* an uploaded file: what the decoder makes of it
Undecodable(name) == [name |-> name, decodeOk |-> FALSE, text |-> <<>>, numpages |-> 0]

Decoded(name, text, numpages) ==
    [name |-> name, decodeOk |-> TRUE, text |-> text, numpages |-> numpages]

NarratorText == Chars("The narrator is considered thiqah and reliable.")

RaviText == Chars("The Ravi is considered thiqah and reliable.")

NarratorFile == Decoded("narrator.pdf", NarratorText, 1)

RaviFile == Decoded("ravi.pdf", RaviText, 1)

TwoPageFile == Decoded("two.pdf", Chars("abcd Ravi is weak.ravi is sound ok."), 2)

Files ==
    { Undecodable("broken.pdf"), NarratorFile, RaviFile, TwoPageFile,
      Decoded("plain.pdf", Chars("nothing to see"), 3) }

Batches == SeqsUpTo(Files, MaxFiles)

\* -------------------------------------------------------------------- state

VARIABLES
    segText, segN, segPages, segPc,                   \* a run of the segmenter
    kwPages, kwIndex, lastIndex, kwResults, kwWindows, \* a run of the classifier
    apiKey, files, pc, fileIdx, allResults, response,  \* a request
    cur,       \* the file being refined: its keyword results, pages still to ask, results so far
    last       \* the file processed last: what each stage returned for it

segVars == <<segText, segN, segPages, segPc>>

kwVars == <<kwPages, kwIndex, lastIndex, kwResults, kwWindows>>

postVars == <<apiKey, files, pc, fileIdx, allResults, response, cur, last>>

vars == <<segVars, kwVars, postVars>>

NoFile == [decoded |-> FALSE, kw |-> <<>>, aiCalled |-> FALSE, aiThrew |-> FALSE,
           ai |-> <<>>]

NoCur == [name |-> "", kw |-> <<>>, todo |-> <<>>, asked |-> 0, ai |-> <<>>]

NoResponse == [status |-> 0, error |-> "", results |-> <<>>, totalFound |-> 0]

SegIdle == segText = <<>> /\ segN = 1 /\ segPages = <<>> /\ segPc = "idle"

KwIdle ==
    /\ kwPages = <<>> /\ kwIndex = 0 /\ lastIndex = 0
    /\ kwResults = <<>> /\ kwWindows = <<>>

PostIdle ==
    /\ apiKey = FALSE /\ files = <<>> /\ pc = "off" /\ fileIdx = 0
    /\ allResults = <<>> /\ last = NoFile /\ response = NoResponse /\ cur = NoCur

\* ----------------------------------------------------- the segmenter alone

InitSeg ==
    /\ segText \in {MarkText(len) : len \in SegLens}
    /\ segN \in 1..MaxSegPages
    /\ segPages = <<>>
    /\ segPc = "ready"
    /\ KwIdle /\ PostIdle

Segment ==
    /\ segPc = "ready"
    /\ segPages' = parsePDFText(segText, segN)
    /\ segPc' = "done"
    /\ UNCHANGED <<segText, segN, kwVars, postVars>>

NextSeg == Segment

SpecSeg == InitSeg /\ [][NextSeg]_vars

\* ---------------------------------------------------- the classifier alone

InitKw ==
    /\ kwPages \in KwInputs
    /\ kwIndex = 0
    /\ lastIndex = 0
    /\ kwResults = <<>>
    /\ kwWindows = <<>>
    /\ SegIdle /\ PostIdle

\* one call of the forEach callback of searchRaviInText; kwWindows records the
\* untruncated contexts of the results
ScanNextPage ==
    /\ kwIndex < Len(kwPages)
    /\ LET pageText == At(kwPages, kwIndex)
           st == ScanPage([lastIndex |-> lastIndex, results |-> kwResults],
                          pageText, kwIndex, KwBook)
       IN  /\ lastIndex' = st.lastIndex
           /\ kwResults' = st.results
           /\ kwWindows' = IF Len(st.results) > Len(kwResults)
                           THEN kwWindows \o PageWindows(pageText)
                           ELSE kwWindows
    /\ kwIndex' = kwIndex + 1
    /\ UNCHANGED <<kwPages, segVars, postVars>>

NextKw == ScanNextPage

SpecKw == InitKw /\ [][NextKw]_vars

\* -------------------------------------------------------------- the request

\* the catch block of the file loop: carry on with the next file
OnFileErrorAbort == "failed"

OnFileError == "loop"

\* what a decoded file adds to allResults
FileResultsMerged(key, kw, aiThrew, ai) ==
    IF key /\ Len(kw) > 0 /\ ~aiThrew THEN kw \o ai ELSE kw

FileResults(key, kw, aiThrew, ai) ==
    IF key /\ Len(kw) > 0 /\ ~aiThrew /\ Len(ai) > 0 THEN ai ELSE kw

Init ==
    /\ apiKey \in BOOLEAN
    /\ files = <<>>
    /\ pc = "idle"
    /\ fileIdx = 0
    /\ allResults = <<>>
    /\ cur = NoCur
    /\ last = NoFile
    /\ response = NoResponse
    /\ SegIdle /\ KwIdle

\* request.formData() and the check for an empty upload
Receive ==
    /\ pc = "idle"
    /\ \E batch \in Batches :
        /\ files' = batch
        /\ IF Len(batch) = 0
           THEN /\ pc' = "done"
                /\ response' = [NoResponse EXCEPT !.status = 400,
                                                  !.error = "No files provided"]
           ELSE /\ pc' = "loop"
                /\ response' = response
    /\ UNCHANGED <<apiKey, fileIdx, allResults, cur, last, segVars, kwVars>>

\* request.formData() throws
ReceiveFails ==
    /\ pc = "idle"
    /\ pc' = "failed"
    /\ UNCHANGED <<apiKey, files, fileIdx, allResults, response, cur, last,
                   segVars, kwVars>>

\* the end of one iteration of the file loop: the file's results are pushed
FileDone(kw, aiCalled, aiThrew, ai) ==
    /\ allResults' = allResults \o FileResults(apiKey, kw, aiThrew, ai)
    /\ last' = [decoded |-> TRUE, kw |-> kw, aiCalled |-> aiCalled,
                aiThrew |-> aiThrew, ai |-> ai]
    /\ cur' = NoCur
    /\ fileIdx' = fileIdx + 1
    /\ pc' = "loop"

\* one iteration of the file loop up to the call of analyzeWithAI: decoding,
\* segmentation and the keyword search
ProcessFile ==
    /\ pc = "loop"
    /\ fileIdx < Len(files)
    /\ LET file == At(files, fileIdx)
       IN  IF ~file.decodeOk
           THEN /\ pc' = OnFileError
                /\ fileIdx' = fileIdx + 1
                /\ last' = NoFile
                /\ UNCHANGED <<allResults, cur>>
           ELSE LET pages == parsePDFText(file.text, file.numpages)
                    kw == searchRaviInText(pages, file.name)
                IN  IF apiKey /\ Len(kw) > 0
                    THEN /\ cur' = [name |-> file.name, kw |-> kw,
                                    todo |-> PagesToAsk(pages), asked |-> 0,
                                    ai |-> <<>>]
                         /\ pc' = "ai"
                         /\ UNCHANGED <<allResults, fileIdx, last>>
                    ELSE FileDone(kw, FALSE, FALSE, <<>>)
    /\ UNCHANGED <<apiKey, files, response, segVars, kwVars>>

\* analyzeWithAI: one iteration of its page loop, with the service's reply
AskPage ==
    /\ pc = "ai"
    /\ cur.todo # <<>>
    /\ \E reply \in Replies :
          cur' = [cur EXCEPT !.todo = Tail(cur.todo),
                             !.asked = cur.asked + 1,
                             !.ai = cur.ai \o ReplyResults(reply, cur.name,
                                                          Head(cur.todo))]
    /\ UNCHANGED <<apiKey, files, pc, fileIdx, allResults, response, last,
                   segVars, kwVars>>

\* analyzeWithAI returns; POST keeps its results or the keyword results
Refined ==
    /\ pc = "ai"
    /\ cur.todo = <<>>
    /\ FileDone(cur.kw, TRUE, FALSE, cur.ai)
    /\ UNCHANGED <<apiKey, files, response, segVars, kwVars>>

\* analyzeWithAI throws before its page loop (the client cannot be built)
RefinementThrows ==
    /\ pc = "ai"
    /\ cur.asked = 0
    /\ FileDone(cur.kw, TRUE, TRUE, <<>>)
    /\ UNCHANGED <<apiKey, files, response, segVars, kwVars>>

\* the success body, once the loop is over
Respond ==
    /\ pc = "loop"
    /\ fileIdx = Len(files)
    /\ response' = [NoResponse EXCEPT !.status = 200,
                                      !.results = allResults,
                                      !.totalFound = Len(allResults)]
    /\ pc' = "done"
    /\ UNCHANGED <<apiKey, files, fileIdx, allResults, cur, last, segVars, kwVars>>

\* the outer catch block
RespondError ==
    /\ pc = "failed"
    /\ response' = [NoResponse EXCEPT !.status = 500, !.error = "Analysis failed"]
    /\ pc' = "done"
    /\ UNCHANGED <<apiKey, files, fileIdx, allResults, cur, last, segVars, kwVars>>

Next ==
    \/ Receive \/ ReceiveFails \/ ProcessFile \/ AskPage \/ Refined
    \/ RefinementThrows \/ Respond \/ RespondError

Spec == Init /\ [][Next]_vars

\* ============================================================== properties

Statuses == {"Thiqah", "Zaeef", "Unknown"}

\* C1 (classifier run, SpecKw): after any number of pages has been scanned, the
\* page numbers of the results are exactly the 1-based indices of the scanned
\* pages that contain "ravi" in any case.
C1_ResultPagesAreRaviPages ==
    {kwResults[j].page : j \in 1..Len(kwResults)}
        = {i \in 1..kwIndex : ContainsRavi(kwPages[i])}

C3_WeakOnlyIsZaeef ==
    \A i \in 1..Len(zaeefTerms) :
        (kwPages = <<WeakOnlyPage(i)>> /\ kwIndex = 1)
            => (Len(kwResults) = 1 /\ kwResults[1].status = "Zaeef")

\* C7 (classifier run): every context returned contains "ravi" in some case,
\* also when its window was trimmed and cut to its first 200 code units.
C7_ContextHasRavi ==
    \A j \in 1..Len(kwResults) : ContainsRavi(kwResults[j].context)

C7_TrimmedAndCut ==
    /\ Len(kwPages) = 1
    /\ Len(kwPages[1]) > 0
    /\ kwPages[1][1] = " "
    /\ \E j \in 1..Len(kwResults) :
          /\ Len(kwWindows[j]) > ContextLimit
          /\ kwWindows[j][1] # " "
          /\ ContainsRavi(kwResults[j].context)

\* C9 (classifier run): a window whose lowercased text holds a term of the
\* trustworthy list and a term of the weak list has status Thiqah, in
\* whatever order the two appear.
HasTerm(terms, window) == SomeTerm(terms, toLowerCase(window))

C9_TrustworthyFirst ==
    \A j \in 1..Len(kwResults) :
        (HasTerm(thiqahTerms, kwWindows[j]) /\ HasTerm(zaeefTerms, kwWindows[j]))
            => kwResults[j].status = "Thiqah"

C9_WeakWrittenFirst ==
    /\ kwPages = << zaeefTerms[3] \o Chars(" but ") \o thiqahTerms[10] \o Chars(" ravi") >>
    /\ Len(kwResults) = 1
    /\ kwResults[1].status = "Thiqah"

\* C4 (request, Spec): whenever a decoded file has been dealt with, allResults
\* has grown by exactly the refinement's results if the key is set, the
\* keyword search found something, the refinement did not throw and returned
\* a result, and by exactly the keyword results in every other case.
C4_ReplacedOrKept ==
    [][ (fileIdx' = fileIdx + 1 /\ last'.decoded) =>
           allResults' = allResults \o
               (IF /\ apiKey
                   /\ Len(last'.kw) > 0
                   /\ ~last'.aiThrew
                   /\ Len(last'.ai) > 0
                THEN last'.ai ELSE last'.kw) ]_vars

C4_RefinementReplaced ==
    /\ fileIdx = 1
    /\ last.aiCalled
    /\ Len(last.ai) > Len(last.kw)
    /\ Len(last.kw) > 0
    /\ allResults = last.ai

\* C5 (request): a non-empty upload ends with the success body, every file
\* dealt with; totalFound counts the results; no result bears the name of a file
\* that failed to decode; the results follow the order of the files, and without
\* the key they are the keyword results of the decoded files in that order.
RECURSIVE KeywordResultsOf(_)
KeywordResultsOf(fs) ==
    IF fs = <<>> THEN <<>>
    ELSE (IF Head(fs).decodeOk
          THEN searchRaviInText(parsePDFText(Head(fs).text, Head(fs).numpages),
                                Head(fs).name)
          ELSE <<>>) \o KeywordResultsOf(Tail(fs))

C5_FailuresIsolated ==
    (pc = "done" /\ files # <<>>) =>
        /\ response.status = 200
        /\ response.error = ""
        /\ response.totalFound = Len(response.results)
        /\ fileIdx = Len(files)
        /\ \A j \in 1..Len(response.results) :
              \E i \in 1..Len(files) :
                  files[i].decodeOk /\ files[i].name = response.results[j].bookName
        /\ \A a, b \in 1..Len(response.results) :
              a < b => \E i, k \in 1..Len(files) :
                          /\ i <= k
                          /\ files[i].name = response.results[a].bookName
                          /\ files[k].name = response.results[b].bookName
        /\ ~apiKey => response.results = KeywordResultsOf(files)

C5_LaterFileProcessed ==
    /\ pc = "done"
    /\ Len(files) = 2
    /\ ~files[1].decodeOk
    /\ files[2] = RaviFile
    /\ response.status = 200
    /\ response.totalFound = 1

\* C6 as stated (request): without the key, the one-page document "The narrator
\* is considered thiqah and reliable." gives exactly one result, Thiqah, page 1.
C6_NarratorGivesOneThiqah ==
    (pc = "done" /\ ~apiKey /\ files = <<NarratorFile>>) =>
        /\ Len(response.results) = 1
        /\ response.results[1].status = "Thiqah"
        /\ response.results[1].page = 1

\* C6 amended: that document holds no "ravi" and gives no result (totalFound
\* 0); the same sentence with "Ravi" for "narrator" gives exactly one result,
\* Thiqah, page 1.
C6_NarratorGivesNothing ==
    /\ (pc = "done" /\ ~apiKey /\ files = <<NarratorFile>>) =>
          /\ response.status = 200
          /\ response.results = <<>>
          /\ response.totalFound = 0
    /\ (pc = "done" /\ ~apiKey /\ files = <<RaviFile>>) =>
          /\ response.status = 200
          /\ Len(response.results) = 1
          /\ response.results[1].status = "Thiqah"
          /\ response.results[1].page = 1
          /\ response.results[1].context = RaviText

C6_NarratorAnswered ==
    pc = "done" /\ ~apiKey /\ files = <<NarratorFile>> /\ response.status = 200

\* C8 as stated (segmenter run, SpecSeg): pageCount slices, slice i the
\* substring from floor(i * len / pageCount) to floor((i+1) * len / pageCount).
PageOffsetExact(len, numPages, i) == (i * len) \div numPages

C8_ExactFloorSlices ==
    segPc = "done" =>
        /\ Len(segPages) = segN
        /\ \A i \in 0..(segN - 1) :
              segPages[i + 1] =
                  SubSeq(segText, PageOffsetExact(Len(segText), segN, i) + 1,
                                  PageOffsetExact(Len(segText), segN, i + 1))

\* C8 amended: pageCount slices; the first starts at offset 0 and each starts
\* where the previous one ends; the end of slice i is floor((i+1) * len /
\* pageCount) or one less (the offsets are floors of double products); 1000
\* code units in 4 pages are cut at 250, 500, 750 and 1000.
RECURSIVE SliceEnd(_, _)
SliceEnd(pages, i) == IF i = 0 THEN 0 ELSE SliceEnd(pages, i - 1) + Len(pages[i])

C8_ContiguousFloorSlices ==
    segPc = "done" =>
        /\ Len(segPages) = segN
        /\ \A i \in 1..segN :
              /\ segPages[i] = SubSeq(segText, SliceEnd(segPages, i - 1) + 1,
                                               SliceEnd(segPages, i))
              /\ SliceEnd(segPages, i) \in
                    { PageOffsetExact(Len(segText), segN, i) - 1,
                      PageOffsetExact(Len(segText), segN, i) }
              /\ (Len(segText) = 1000 /\ segN = 4) => SliceEnd(segPages, i) = 250 * i

C8_LastSliceFallsShort ==
    /\ segPc = "done"
    /\ Len(segText) = 15
    /\ segN = 11
    /\ SliceEnd(segPages, segN) = 14

\* C10 (request): every result of the response has a status among Thiqah, Zaeef
\* and Unknown.
C10_StatusInEnum ==
    \A j \in 1..Len(response.results) : response.results[j].status \in Statuses

====
